---- MODULE Spec2Model ----
(***************************************************************************)
(* Model of JarvisBot (src/bot.py): a chat front-end that keeps a memory   *)
(* log (a file plus an in-memory copy), a model registry with one active   *)
(* model, and relays free-text messages to an inference service.           *)
(*                                                                         *)
(* Text is modelled as a sequence of tokens.  The token "rt" stands for    *)
(* the phrase "remember this:" in lower case and "RT" for the same phrase  *)
(* written with at least one upper-case letter; "a"/"A" are a letter in    *)
(* both cases and " " is white space.  No other token can form the phrase. *)
(* A file operation (append, remove, read) either succeeds as a whole or   *)
(* raises without effect.  Handlers run one at a time, start to finish.    *)
(***************************************************************************)
EXTENDS Integers, Sequences, FiniteSets

VARIABLES
    started,        \* run() has performed its startup probe
    ollama_ready,   \* self.ollama_ready
    models,         \* self.models
    active_model,   \* self.active_model
    memory,         \* self.memory
    file,           \* the file at self.memory_path
    ev,             \* what the last handled operation did (inputs, reply, requests)
    loadFailed,     \* history: the read at construction raised and no wipe has succeeded since
    sinceWipe       \* history: outcome of the last wipe with no record after it

vars == <<started, ollama_ready, models, active_model, memory, file, ev,
          loadFailed, sinceWipe>>

-----------------------------------------------------------------------------
(* Bounds *)

MaxMsgLen == 2
MaxEntries == 2
MaxModels == 2

-----------------------------------------------------------------------------
(* Inputs *)

Names == {"m1", "m2"}
None == "None"
NoName == "<no name>"
Tokens == {"rt", "RT", "a", "A", " "}
Trigger == "rt"
Blank == " "

\* datetime.now().strftime("%Y-%m-%d %H:%M"); the minute it names plays no part
Stamp == "2024-05-01 09:30"

SeqsUpTo(S, n) == UNION {[1..k -> S] : k \in 0..n}

Messages == SeqsUpTo(Tokens, MaxMsgLen) \ {<<>>}
ErrStatuses == {404, 500}

\* Answers of POST /api/generate: status and body, or no answer at all.
GenAnswers ==
    {[status |-> 200, body |-> b] : b \in {"text", "nofield", "badjson"}}
        \cup {[status |-> s, body |-> "err"] : s \in ErrStatuses}
        \cup {[status |-> 0, body |-> "connerr"]}

\* Answers of GET /api/tags.  A 200 body is either not JSON, JSON that is no
\* object, an object without "models", or an object whose "models" is a list of
\* objects, each with a "name" or without one (NoName).
TagsAnswers ==
    {[status |-> 200, body |-> b, list |-> <<>>] : b \in {"badjson", "notdict", "nokey"}}
        \cup {[status |-> 200, body |-> "models", list |-> l] :
                l \in SeqsUpTo(Names \cup {NoName}, MaxModels)}
        \cup {[status |-> s, body |-> "err", list |-> <<>>] : s \in ErrStatuses}
        \cup {[status |-> 0, body |-> "connerr", list |-> <<>>]}

Range(s) == {s[i] : i \in DOMAIN s}

-----------------------------------------------------------------------------
(* Memory log values *)

\* The in-memory copy is either the marker string or text, kept here as its lines.
Marker == [kind |-> "marker", lines |-> <<>>]
Text(ls) == [kind |-> "text", lines |-> ls]

Absent == [exists |-> FALSE, lines |-> <<>>]
Present(ls) == [exists |-> TRUE, lines |-> ls]

\* entry = f"[{stamp}] {note}"
Entry(stamp, note) == [stamp |-> stamp, note |-> note]

-----------------------------------------------------------------------------
(* String functions used by handler *)

LowerCh(c) == CASE c = "A" -> "a" [] c = "RT" -> "rt" [] OTHER -> c

Lower(s) == [i \in DOMAIN s |-> LowerCh(s[i])]

Contains(s, t) == \E i \in DOMAIN s : s[i] = t

FirstIdx(s, t) == CHOOSE i \in DOMAIN s : s[i] = t /\ \A j \in 1..(i-1) : s[j] # t

\* s.split(t)[1] for s containing t: the text between the first and the second t
SplitSecond(s, t) ==
    LET rest == SubSeq(s, FirstIdx(s, t) + 1, Len(s))
    IN  IF Contains(rest, t) THEN SubSeq(rest, 1, FirstIdx(rest, t) - 1) ELSE rest

RECURSIVE LStrip(_)
LStrip(s) == IF s # <<>> /\ Head(s) = Blank THEN LStrip(Tail(s)) ELSE s

RECURSIVE RStrip(_)
RStrip(s) ==
    IF s # <<>> /\ s[Len(s)] = Blank THEN RStrip(SubSeq(s, 1, Len(s) - 1)) ELSE s

Strip(s) == RStrip(LStrip(s))

\* note = msg.lower().split("remember this:")[1].strip()
NoteOf(msg) == Strip(SplitSecond(Lower(msg), Trigger))

\* the text that follows the first occurrence of the phrase, as the user wrote it
Following(msg) ==
    LET i == CHOOSE k \in DOMAIN msg :
                 msg[k] \in {"rt", "RT"} /\ \A j \in 1..(k-1) : msg[j] \notin {"rt", "RT"}
    IN  Strip(SubSeq(msg, i + 1, Len(msg)))

\* What handler derives from the message text: whether the phrase occurs in the
\* lower-cased text and the note it would store.  `said` is the text after the
\* phrase in the user's own spelling, which the code never computes.
Parse(msg) ==
    IF Contains(Lower(msg), Trigger)
    THEN [trig |-> TRUE, note |-> NoteOf(msg), said |-> Following(msg)]
    ELSE [trig |-> FALSE, note |-> <<>>, said |-> <<>>]

ParsedMessages == {Parse(m) : m \in Messages}

-----------------------------------------------------------------------------
(* JarvisBot methods *)

\* _load_memory: the content of the file with surrounding white space removed,
\* or the marker when the file is missing, empty or unreadable.  The file is
\* entry + "\n" per entry, so the stripped content is the entries joined by "\n".
_load_memory(f, readOk) ==
    IF f.exists
    THEN IF readOk
         THEN IF f.lines # <<>> THEN Text(f.lines) ELSE Marker
         ELSE Marker
    ELSE Marker

\* faulty variant: the copy is overwritten by the new entry
MemoryAfterSave_Replace(mem, entry) == Text(<<entry>>)

\* self.memory = entry if self.memory == marker else self.memory + "\n" + entry
MemoryAfterSave(mem, entry) ==
    IF mem = Marker THEN Text(<<entry>>) ELSE Text(Append(mem.lines, entry))

\* open(path, "a") creates the file when it is missing
FileAfterAppend(f, entry) == Present(Append(f.lines, entry))

\* _save_memory: on an exception nothing is written and False is returned
_save_memory(mem, f, stamp, note, writeOk) ==
    IF writeOk
    THEN [ok |-> TRUE,
          memory |-> MemoryAfterSave(mem, Entry(stamp, note)),
          file |-> FileAfterAppend(f, Entry(stamp, note))]
    ELSE [ok |-> FALSE, memory |-> mem, file |-> f]

\* check_ollama: the value of self.ollama_ready after the probe
check_ollama(ready, probeOk) == IF probeOk THEN TRUE ELSE ready

\* What fetch_models reads from an answer.  It raises on a connection error, on
\* a body that is not JSON (resp.json()), on JSON that is no object (payload.get)
\* and on the first entry without a name ([m["name"] for m in ...]), each before
\* anything is assigned; a status other than 200 returns False at once.
TagsRaises(ans) ==
    \/ ans.status = 0
    \/ ans.status = 200 /\ ans.body \in {"badjson", "notdict"}
    \/ ans.status = 200 /\ ans.body = "models" /\ NoName \in Range(ans.list)

\* payload.get("models", []) of an object
TagNames(ans) == IF ans.body = "models" THEN ans.list ELSE <<>>

\* `why` keeps the kind of answer: the status, and for a 200 the kind of body
TagsKind(ans) ==
    [status |-> ans.status,
     body |-> IF ans.body = "models" /\ NoName \in Range(ans.list) THEN "noname"
              ELSE ans.body]

ParseTags(ans) ==
    IF ~TagsRaises(ans) /\ ans.status = 200
    THEN [ok |-> TRUE, names |-> TagNames(ans), why |-> TagsKind(ans)]
    ELSE [ok |-> FALSE, names |-> <<>>, why |-> TagsKind(ans)]

ParsedTags == {ParseTags(a) : a \in TagsAnswers}

\* faulty variant: an active model, once chosen, is never replaced
ActiveAfterFetch_OnlyIfUnset(names, active) ==
    IF names # <<>> /\ active = None THEN names[1] ELSE active

\* if self.models: self.active_model = self.models[0]
ActiveAfterFetch(names, active) == IF names # <<>> THEN names[1] ELSE active

\* faulty variant: the registry is emptied before the answer is examined
fetch_models_ClearsOnFailure(mods, active, t) ==
    IF t.ok
    THEN [ok |-> TRUE, models |-> t.names, active |-> ActiveAfterFetch(t.names, active)]
    ELSE [ok |-> FALSE, models |-> <<>>, active |-> active]

\* fetch_models, given what it read from the answer
fetch_models(mods, active, t) ==
    IF t.ok
    THEN [ok |-> TRUE, models |-> t.names, active |-> ActiveAfterFetch(t.names, active)]
    ELSE [ok |-> FALSE, models |-> mods, active |-> active]

NoReq == [kind |-> "none"]
NoAnswer == [status |-> 0, body |-> "none"]
\* no listing was requested
NoTags == [ok |-> FALSE, names |-> <<>>, why |-> [status |-> 0, body |-> "none"]]

\* faulty variant: the active model is not examined
NotConfigured_ReadyOnly(ready, active) == ~ready

\* if not self.ollama_ready or not self.active_model
NotConfigured(ready, active) == ~ready \/ active = None

\* faulty variant: the requested model is used without looking it up
UseModel_Unchecked(model, mods, active) == IF model # None THEN model ELSE active

\* use_model = model if model in self.models else self.active_model
UseModel(model, mods, active) == IF model \in Range(mods) THEN model ELSE active

\* faulty variant: the error string does not carry the status
ReplyFor_NoCode(ans) ==
    IF ans.status = 0 THEN [kind |-> "connect_failed"]
    ELSE IF ans.status = 200
         THEN IF ans.body = "badjson" THEN [kind |-> "connect_failed"]
              ELSE IF ans.body = "text" THEN [kind |-> "completion", text |-> "hi"]
              ELSE [kind |-> "completion", text |-> "No output."]
         ELSE [kind |-> "api_error", code |-> 0]

\* the value respond returns for an answer of the service
ReplyFor(ans) ==
    IF ans.status = 0 THEN [kind |-> "connect_failed"]
    ELSE IF ans.status = 200
         THEN IF ans.body = "badjson" THEN [kind |-> "connect_failed"]
              ELSE IF ans.body = "text" THEN [kind |-> "completion", text |-> "hi"]
              ELSE [kind |-> "completion", text |-> "No output."]
         ELSE [kind |-> "api_error", code |-> ans.status]

\* respond: the reply, the request posted and the answer it got
respond(ready, active, mods, model, ans) ==
    IF NotConfigured(ready, active)
    THEN [reply |-> [kind |-> "not_configured"], post |-> NoReq, answer |-> NoAnswer]
    ELSE [reply |-> ReplyFor(ans),
          post |-> [kind |-> "generate", model |-> UseModel(model, mods, active)],
          answer |-> ans]

\* the service is asked only when respond gets as far as the request
AnswersFor(ready, active) ==
    IF NotConfigured(ready, active) THEN {NoAnswer} ELSE GenAnswers

\* 0 if self.memory == marker else len(self.memory.splitlines())
MemoryCount(mem) == IF mem = Marker THEN 0 ELSE Len(mem.lines)

Event(op, trig, said, model, probe, tags, answer, post, reply) ==
    [op |-> op, trig |-> trig, said |-> said, model |-> model, probe |-> probe,
     tags |-> tags, answer |-> answer, post |-> post, reply |-> reply]

-----------------------------------------------------------------------------
(* Construction *)

\* The file left by an earlier run: none, an empty one, or one entry.
InitFiles == {Absent, Present(<<>>), Present(<<Entry(Stamp, <<"a", "a">>)>>)}

Init ==
    /\ started = FALSE
    /\ ollama_ready = FALSE
    /\ models = <<>>
    /\ active_model = None
    /\ file \in InitFiles
    /\ \E readOk \in BOOLEAN :
          /\ memory = _load_memory(file, readOk)
          /\ loadFailed = (file.exists /\ ~readOk)
    /\ ev = Event("init", FALSE, <<>>, None, "none", NoTags, NoAnswer, NoReq,
                  [kind |-> "none"])
    /\ sinceWipe = "none"

-----------------------------------------------------------------------------
(* Operations *)

\* self.check_ollama(); if self.ollama_ready: self.fetch_models()
Probe(probeOk, tags) ==
    IF check_ollama(ollama_ready, probeOk)
    THEN [ready |-> TRUE, tags |-> tags, f |-> fetch_models(models, active_model, tags)]
    ELSE [ready |-> FALSE, tags |-> NoTags,
          f |-> [ok |-> FALSE, models |-> models, active |-> active_model]]

\* the listing is requested only when the flag is set after the probe
TagsFor(probeOk) ==
    IF check_ollama(ollama_ready, probeOk) THEN ParsedTags ELSE {NoTags}

ProbeName(probeOk) == IF probeOk THEN "ok" ELSE "failed"

Run ==
    /\ ~started
    /\ \E probeOk \in BOOLEAN :
          \E tags \in TagsFor(probeOk) :
             \E p \in {Probe(probeOk, tags)} :
                /\ ollama_ready' = p.ready
                /\ models' = p.f.models
                /\ active_model' = p.f.active
                /\ ev' = Event("run", FALSE, <<>>, None, ProbeName(probeOk), p.tags,
                               NoAnswer, NoReq, [kind |-> "none"])
    /\ started' = TRUE
    /\ UNCHANGED <<memory, file, loadFailed, sinceWipe>>

Status ==
    /\ started
    /\ \E probeOk \in BOOLEAN :
          \E tags \in TagsFor(probeOk) :
             \E p \in {Probe(probeOk, tags)} :
                /\ ollama_ready' = p.ready
                /\ models' = p.f.models
                /\ active_model' = p.f.active
                /\ ev' = Event("status", FALSE, <<>>, None, ProbeName(probeOk), p.tags,
                               NoAnswer, NoReq,
                               [kind |-> "status", ollama |-> p.ready,
                                nmodels |-> Len(p.f.models), active |-> p.f.active,
                                memories |-> MemoryCount(memory)])
    /\ UNCHANGED <<started, memory, file, loadFailed, sinceWipe>>

MemoryCmd ==
    /\ started
    /\ ev' = Event("memory_cmd", FALSE, <<>>, None, "none", NoTags, NoAnswer, NoReq,
                   IF memory = Marker THEN [kind |-> "empty"]
                   ELSE [kind |-> "memories", lines |-> memory.lines])
    /\ UNCHANGED <<started, ollama_ready, models, active_model, memory, file,
                   loadFailed, sinceWipe>>

\* faulty variant: the file is removed but the copy is not reset
ForgetResult_KeepsCopy(mem, f, removeOk) ==
    IF f.exists /\ ~removeOk
    THEN [memory |-> mem, file |-> f, reply |-> [kind |-> "wipe_failed"]]
    ELSE [memory |-> mem, file |-> Absent, reply |-> [kind |-> "wiped"]]

\* forget: os.remove may raise, and then self.memory is not reset
ForgetResult(mem, f, removeOk) ==
    IF f.exists /\ ~removeOk
    THEN [memory |-> mem, file |-> f, reply |-> [kind |-> "wipe_failed"]]
    ELSE [memory |-> Marker, file |-> Absent, reply |-> [kind |-> "wiped"]]

Forget ==
    /\ started
    /\ \E removeOk \in (IF file.exists THEN BOOLEAN ELSE {TRUE}) :
          \E r \in {ForgetResult(memory, file, removeOk)} :
             /\ memory' = r.memory
             /\ file' = r.file
             /\ ev' = Event("forget", FALSE, <<>>, None, "none", NoTags, NoAnswer, NoReq,
                            r.reply)
             /\ sinceWipe' = IF r.reply.kind = "wiped" THEN "ok" ELSE "failed"
             /\ loadFailed' = (loadFailed /\ r.reply.kind # "wiped")
    /\ UNCHANGED <<started, ollama_ready, models, active_model>>

\* handler: the record branch replies and returns only when the note is not
\* empty and was saved; in every other case the message goes to respond
HandlerResult(p, writeOk, ans) ==
    LET s == IF p.trig /\ p.note # <<>>
             THEN _save_memory(memory, file, Stamp, p.note, writeOk)
             ELSE [ok |-> FALSE, memory |-> memory, file |-> file]
        r == respond(ollama_ready, active_model, models, None, ans)
    IN  IF s.ok
        THEN [memory |-> s.memory, file |-> s.file, saved |-> TRUE, said |-> p.said,
              reply |-> [kind |-> "logged"], post |-> NoReq, answer |-> NoAnswer]
        ELSE [memory |-> s.memory, file |-> s.file, saved |-> FALSE, said |-> <<>>,
              reply |-> r.reply, post |-> r.post, answer |-> r.answer]

Saves(p) == p.trig /\ p.note # <<>>

Handler ==
    /\ started
    /\ \E p \in ParsedMessages :
          /\ Saves(p) => Len(file.lines) < MaxEntries
          /\ \E writeOk \in (IF Saves(p) THEN BOOLEAN ELSE {FALSE}) :
             \E ans \in (IF Saves(p) /\ writeOk THEN {NoAnswer}
                         ELSE AnswersFor(ollama_ready, active_model)) :
             \E h \in {HandlerResult(p, writeOk, ans)} :
                /\ memory' = h.memory
                /\ file' = h.file
                /\ ev' = Event("handler", p.trig, h.said, None, "none", NoTags,
                               h.answer, h.post, h.reply)
                /\ sinceWipe' = IF h.saved THEN "none" ELSE sinceWipe
    /\ UNCHANGED <<started, ollama_ready, models, active_model, loadFailed>>

\* respond called with a model override
Respond ==
    /\ started
    /\ \E model \in Names \cup {None} :
          \E ans \in AnswersFor(ollama_ready, active_model) :
             \E r \in {respond(ollama_ready, active_model, models, model, ans)} :
                ev' = Event("respond", FALSE, <<>>, model, "none", NoTags,
                            r.answer, r.post, r.reply)
    /\ UNCHANGED <<started, ollama_ready, models, active_model, memory, file,
                   loadFailed, sinceWipe>>

Next == Run \/ Status \/ MemoryCmd \/ Forget \/ Handler \/ Respond

Spec == Init /\ [][Next]_vars

-----------------------------------------------------------------------------
(* Properties *)

IsPrefix(s, t) == Len(s) <= Len(t) /\ SubSeq(t, 1, Len(s)) = s

Listing == {"run", "status"}
Generating == {"handler", "respond"}

\* the last operation went through respond
Generated == ev.op \in Generating /\ ev.reply.kind # "logged"

\* C1: a note recorded through the trigger phrase is listed verbatim, as the
\* user wrote it after the phrase, on a line "[stamp] note" by the listing that
\* follows the acknowledgment; and a record operation keeps the entries that
\* were there, in place.
C1_NoteListedVerbatim ==
    [][ /\ (ev.op = "handler" /\ ev.reply.kind = "logged" /\ ev'.op = "memory_cmd")
              => /\ ev'.reply.kind = "memories"
                 /\ \E i \in DOMAIN ev'.reply.lines :
                       ev'.reply.lines[i] = Entry(Stamp, ev.said)
        /\ (ev'.op = "handler" /\ memory # Marker)
              => /\ memory' # Marker
                 /\ IsPrefix(memory.lines, memory'.lines) ]_vars

\* C2 as stated: a listing that follows the handling of a wipe, with no record
\* in between, gives the empty-state reply.
C2_AnyWipeThenEmpty ==
    (ev.op = "memory_cmd" /\ sinceWipe # "none") => ev.reply.kind = "empty"

\* C2, amended: a listing that follows a wipe that was acknowledged ("Memory
\* wiped clean"), with no record in between, gives the empty-state reply,
\* whatever the log held before the wipe.
C2_WipedThenEmpty ==
    (ev.op = "memory_cmd" /\ sinceWipe = "ok") => ev.reply.kind = "empty"

C2_Witness ==
    /\ ev.op = "memory_cmd"
    /\ sinceWipe = "ok"
    /\ ev.reply.kind = "empty"
    /\ ~file.exists

C4_ErrorStatusNoMutation ==
    [][ (ev'.op \in Generating /\ ev'.post # NoReq /\ ev'.answer.status \in ErrStatuses)
          => /\ ev'.reply = [kind |-> "api_error", code |-> ev'.answer.status]
             /\ memory' = memory
             /\ file' = file
             /\ models' = models
             /\ active_model' = active_model ]_vars

C4_Witness ==
    /\ ev.op = "respond"
    /\ ev.answer.status = 500
    /\ ev.reply = [kind |-> "api_error", code |-> 500]
    /\ memory # Marker
    /\ models # <<>>

\* C5: the availability a status reply reports, and the readiness that later
\* generation requests use, is the outcome of the probe of that status request.
C5_StatusReportsProbe ==
    ev.op = "status"
        => /\ ev.reply.ollama = (ev.probe = "ok")
           /\ ollama_ready = (ev.probe = "ok")

\* C6: a listing that succeeds replaces the registry by the names returned and,
\* when there are any, makes the first the active model; a listing that fails
\* (status other than 200, connection error, malformed body) leaves the registry
\* and the active model as they were.
TagsFailure(t) ==
    t.why.status # 200 \/ t.why.body \in {"badjson", "notdict", "noname"}

C6_FetchModelsFrame ==
    [][ (ev'.op \in Listing /\ ev'.tags # NoTags)
          => IF TagsFailure(ev'.tags)
             THEN models' = models /\ active_model' = active_model
             ELSE /\ models' = ev'.tags.names
                  /\ ev'.tags.names # <<>> => active_model' = ev'.tags.names[1]
                  /\ ev'.tags.names = <<>> => active_model' = active_model ]_vars

C6_Witness ==
    /\ ev.op = "status"
    /\ ev.tags.why.body = "noname"
    /\ Len(models) = 2
    /\ active_model = models[1]

\* C7: the model named in a completion request is the requested model when the
\* registry holds that name, and the active model otherwise; the reply to a
\* request for an unknown model is the reply the service's answer gives.
C7_RequestedOrActive ==
    (ev.op \in Generating /\ ev.post # NoReq)
        => /\ ev.post.model = (IF ev.model \in Range(models) THEN ev.model
                              ELSE active_model)
           /\ (ev.answer.status = 200 /\ ev.answer.body = "text")
                 => ev.reply.kind = "completion"

C7_Witness ==
    /\ ev.op = "respond"
    /\ ev.model \in Names
    /\ ev.model \notin Range(models)
    /\ models # <<>>
    /\ ev.post # NoReq
    /\ ev.post.model = active_model
    /\ ev.reply.kind = "completion"

\* C8: a message with the trigger phrase is handled by the record branch only:
\* no completion request is issued for it and its reply is the acknowledgment or
\* a generic error; a message without the phrase gets what respond returns.
C8_TriggerNeverForwarded ==
    /\ (ev.op = "handler" /\ ev.trig)
          => (ev.post = NoReq /\ ev.reply.kind \in {"logged", "error"})
    /\ (ev.op = "handler" /\ ~ev.trig)
          => ev.reply.kind \in {"not_configured", "completion", "api_error",
                                "connect_failed"}

====
